---- MODULE Spec2Model ----
(***************************************************************************)
(* Legacy raster loader (run.py): one worker per data type walks the       *)
(* sorted raster files of its type, samples every band at the valid tower  *)
(* coordinates, accumulates the records in a batch and hands the batch to  *)
(* the data type's ingestion procedure.                                    *)
(***************************************************************************)
EXTENDS Integers, Sequences, FiniteSets, TLC

None == "None"

(***************************************************************************)
(* Bounds of the model.                                                    *)
(***************************************************************************)
MaxFiles == 2          \* files one glob pattern matches, at most
MaxReruns == 1         \* times the program is started again
MaxTowers == 2         \* towers of a sequence get_valid_coordinates is called on
MaxRaw == 2            \* cells of an array a value calculator is called on
MaxRawValue == 7300    \* largest raw cell value, and the smallest with a minus
BigTowers == 4167      \* towers of the large registry (4167 * 48 > 200000)
FullTowers == 2500     \* towers of the registry that fills batches exactly

(***************************************************************************)
(* Program constants.                                                      *)
(***************************************************************************)
MAX_DB_CONNECTIONS == 100
BAND_CAP == 48
BATCH_LIMIT == 100000

\* self.data_procedures
data_procedures ==
    [wind_speed |-> "process_wind_speed_data",
     wind_gust |-> "process_wind_gust_data",
     wind_direction |-> "process_wind_direction_data",
     ice_mass |-> "process_ice_mass_data",
     ice_thickness |-> "process_ice_thickness_data"]

\* dict.get(key): the value, or None for a key the dict does not hold
procedure_get(data_type) ==
    IF data_type \in DOMAIN data_procedures THEN data_procedures[data_type] ELSE None

\* the keys of self.value_calculators
calculator_keys ==
    {"wind_speed", "wind_gust", "wind_direction", "ice_mass", "ice_thickness"}

\* value_calculators with the 180 degrees added after the modulo
value_calculators_offset_last(data_type, x) ==
    IF data_type = "wind_direction" THEN (x % 3600) + 1800 ELSE x

\* self.value_calculators[data_type](x), raw x an integer, result in tenths
value_calculators(data_type, x) ==
    IF data_type = "wind_direction" THEN (x + 1800) % 3600 ELSE x

\* line 146: the calculator is applied to the array of the band's cells
calculated_values(data_type, raw_values) ==
    [idx \in DOMAIN raw_values |-> value_calculators(data_type, raw_values[idx])]

\* data_configs of main(), in order
data_configs ==
    <<"wind_speed", "wind_gust", "wind_direction", "ice_mass", "ice_thickness">>

(***************************************************************************)
(* Paths are strings, modelled as sequences of ASCII codes so that the     *)
(* order sorted() puts them in is the order of the code points.            *)
(***************************************************************************)
Ascii == [dot |-> 46, slash |-> 47, a |-> 97, b |-> 98, d |-> 100, t |-> 116]

\* s < t for two strings (tuples of code points), as Python compares str
RECURSIVE StrLess(_, _)
StrLess(s, t) ==
    IF t = <<>> THEN FALSE
    ELSE IF s = <<>> THEN TRUE
    ELSE IF Head(s) # Head(t) THEN Head(s) < Head(t)
    ELSE StrLess(Tail(s), Tail(t))

\* index of the last occurrence of code point c in s, 0 when absent
LastIndexOf(s, c) ==
    LET hits == {i \in 1..Len(s) : s[i] = c}
    IN IF hits = {} THEN 0 ELSE CHOOSE i \in hits : \A j \in hits : j <= i

\* os.path.basename
basename(path) == SubSeq(path, LastIndexOf(path, Ascii.slash) + 1, Len(path))

\* os.path.splitext(name)[0]: cut at the last dot, unless the name starts there
splitext_root(name) ==
    LET d == LastIndexOf(name, Ascii.dot)
    IN IF d <= 1 \/ (\A i \in 1..(d - 1) : name[i] = Ascii.dot) THEN name
       ELSE SubSeq(name, 1, d - 1)

(***************************************************************************)
(* Tower coordinates as the registry hands them over: a number (whole      *)
(* degrees here), NaN, an infinity, None, or a text that float() parses or *)
(* rejects.                                                                *)
(***************************************************************************)
Num(v) == [kind |-> "num", v |-> v]
NaN == [kind |-> "nan", v |-> 0]
Inf == [kind |-> "inf", v |-> 0]
NoneCoord == [kind |-> "none", v |-> 0]
Text(v) == [kind |-> "text", v |-> v]
BadText == [kind |-> "badtext", v |-> 0]

\* float(c): ok is FALSE where float() raises ValueError or TypeError
float(c) ==
    CASE c.kind \in {"num", "text"} -> [ok |-> TRUE, kind |-> "num", v |-> c.v]
      [] c.kind \in {"nan", "inf"} -> [ok |-> TRUE, kind |-> c.kind, v |-> 0]
      [] OTHER -> [ok |-> FALSE, kind |-> "none", v |-> 0]

\* coordinate_ok with the two columns taken for each other
coordinate_ok_swapped(pole) ==
    LET lon == float(pole[2])
        lat == float(pole[3])
    IN /\ lon.ok /\ lat.ok
       /\ lon.kind # "nan" /\ lat.kind # "nan"
       /\ lat.kind = "num" /\ -90 <= lat.v /\ lat.v <= 90
       /\ lon.kind = "num" /\ -180 <= lon.v /\ lon.v <= 180

\* lines 57-61: both coordinates convert and pass the range test
coordinate_ok(pole) ==
    LET lon == float(pole[3])
        lat == float(pole[2])
    IN /\ lon.ok /\ lat.ok
       /\ lon.kind # "nan" /\ lat.kind # "nan"
       /\ lat.kind = "num" /\ -90 <= lat.v /\ lat.v <= 90
       /\ lon.kind = "num" /\ -180 <= lon.v /\ lon.v <= 180

\* insert pole x into the sorted sequence s behind every pole whose serial is
\* not larger (stable)
RECURSIVE insert_by_serial(_, _)
insert_by_serial(s, x) ==
    IF s = <<>> THEN <<x>>
    ELSE IF x[1] < Head(s)[1] THEN <<x>> \o s
    ELSE <<Head(s)>> \o insert_by_serial(Tail(s), x)

RECURSIVE insertion_sort(_)
insertion_sort(s) ==
    IF s = <<>> THEN <<>>
    ELSE insert_by_serial(insertion_sort(SubSeq(s, 1, Len(s) - 1)), s[Len(s)])

\* sorted_by_serial with the sort left out: the towers as they were fetched
unsorted_by_serial(poles) == poles

\* sorted(poles, key=lambda x: x[0]): stable, ascending; a sequence that is
\* one ascending run already comes back as it is
sorted_by_serial(poles) ==
    IF \A i \in 1..(Len(poles) - 1) : poles[i][1] <= poles[i + 1][1]
    THEN poles
    ELSE insertion_sort(poles)

\* get_valid_coordinates(poles)
get_valid_coordinates(poles) ==
    LET valid == SelectSeq(sorted_by_serial(poles), coordinate_ok)
    IN [valid_poles |-> valid,
        valid_coords |-> [i \in 1..Len(valid) |-> <<float(valid[i][3]).v, float(valid[i][2]).v>>],
        invalid_count |-> Len(poles) - Len(valid)]

(***************************************************************************)
(* The tower registry: what the SELECT of process_tiff_file returns.  A    *)
(* pole is <<tower_serial, mid_latitude, mid_longitude>>.                  *)
(***************************************************************************)
Registries ==
    <<  \* 1: no tower at all
        <<>>,
        \* 2: one tower, valid
        << <<7, Num(40), Num(29)>> >>,
        \* 3: one valid tower among three
        << <<1, Num(40), Num(29)>>, <<2, Num(95), Num(10)>>, <<3, NoneCoord, Num(30)>> >>,
        \* 4: out of serial order, bounds inclusive, one NaN
        << <<3, Num(-90), Num(180)>>, <<1, Text(40), Num(-180)>>, <<2, NaN, Num(10)>> >>,
        \* 5: towers, none valid
        << <<1, Num(91), Num(0)>>, <<2, Num(0), BadText>> >>,
        \* 6 and 7: large registries, all valid
        [i \in 1..BigTowers |-> <<i, Num(40), Num(29)>>],
        [i \in 1..FullTowers |-> <<i, Num(41), Num(30)>>],
        \* 8: the towers of 4, fetched in another order
        << <<1, Text(40), Num(-180)>>, <<2, NaN, Num(10)>>, <<3, Num(-90), Num(180)>> >> >>

SmallRegistries == 1..5

\* get_valid_coordinates of every registry content
ValidTable == [r \in DOMAIN Registries |-> get_valid_coordinates(Registries[r])]

(***************************************************************************)
(* Raster files.  A band description is None or a text; the text is kept   *)
(* by its parts, sep being the character between the date and the hour.    *)
(***************************************************************************)
Label(k) ==
    [none |-> FALSE, y |-> 2024, m |-> 1, d |-> 1 + ((k - 1) \div 24),
     h |-> (k - 1) % 24, sep |-> "_"]

\* a description that is None
NoLabel == [none |-> TRUE, y |-> 0, m |-> 0, d |-> 0, h |-> 0, sep |-> ""]

\* a datetime, and the absence of one
DateTime(y, m, d, h) == <<y, m, d, h>>
NoTime == <<>>

\* the Gregorian leap years
is_leap(y) == (y % 4 = 0) /\ ((y % 100 # 0) \/ (y % 400 = 0))

\* the number of days of month m of year y
days_in_month(y, m) ==
    IF m = 2 THEN (IF is_leap(y) THEN 29 ELSE 28)
    ELSE IF m \in {4, 6, 9, 11} THEN 30 ELSE 31

\* the fields of the text are those of a date and an hour that exist: %Y is
\* a year of 1..9999, %m a month, %d a day that month has, %H an hour
date_exists(text) ==
    /\ text.y \in 1..9999
    /\ text.m \in 1..12
    /\ text.d \in 1..days_in_month(text.y, text.m)
    /\ text.h \in 0..23

\* strptime that falls back on a default time where the text does not parse
strptime_with_default(text) ==
    IF ~text.none /\ text.sep = "_" /\ date_exists(text)
    THEN [ok |-> TRUE, value |-> DateTime(text.y, text.m, text.d, text.h)]
    ELSE [ok |-> TRUE, value |-> DateTime(1970, 1, 1, 0)]

\* datetime.strptime(text, "%Y-%m-%d_%H"): ok is FALSE where it raises
strptime(text) ==
    IF text.none THEN [ok |-> FALSE, value |-> NoTime]
    ELSE IF text.sep = "_" /\ date_exists(text)
         THEN [ok |-> TRUE, value |-> DateTime(text.y, text.m, text.d, text.h)]
         ELSE [ok |-> FALSE, value |-> NoTime]

InDir(name) == <<Ascii.d, Ascii.slash>> \o name

\* path, declared band count (src.count), src.descriptions, whether the file
\* opens and whether its transform maps points to pixel indices
Raster(path, count, descriptions, opens, geo) ==
    [path |-> path, count |-> count, descriptions |-> descriptions,
     opens |-> opens, geo |-> geo]

Labels(count) == [k \in 1..count |-> Label(k)]

Rasters ==
    <<  Raster(InDir(<<Ascii.b, Ascii.dot, Ascii.t>>), 1, Labels(1), TRUE, TRUE),
        Raster(InDir(<<Ascii.a, Ascii.b, Ascii.dot, Ascii.t>>), 2, Labels(2), TRUE, TRUE),
        Raster(InDir(<<Ascii.a, Ascii.dot, Ascii.b, Ascii.dot, Ascii.t>>), 8, Labels(8), TRUE, TRUE),
        \* no band description
        Raster(InDir(<<Ascii.a, Ascii.dot, Ascii.t>>), 1, <<NoLabel>>, TRUE, TRUE),
        \* first description "2024-01-01 00"
        Raster(InDir(<<Ascii.b, Ascii.b, Ascii.dot, Ascii.t>>), 2,
               <<[Label(1) EXCEPT !.sep = " "], Label(2)>>, TRUE, TRUE),
        \* src.index() raises
        Raster(InDir(<<Ascii.a, Ascii.a, Ascii.dot, Ascii.t>>), 1, Labels(1), TRUE, FALSE),
        \* rasterio.open() raises
        Raster(InDir(<<Ascii.b, Ascii.a, Ascii.dot, Ascii.t>>), 1, Labels(1), FALSE, TRUE),
        \* many bands
        Raster(InDir(<<Ascii.t, Ascii.dot, Ascii.t>>), 50, Labels(50), TRUE, TRUE),
        Raster(InDir(<<Ascii.t, Ascii.t, Ascii.dot, Ascii.t>>), 40, Labels(40), TRUE, TRUE),
        \* first description "2024-02-30_00", a day February does not have
        Raster(InDir(<<Ascii.b, Ascii.t, Ascii.dot, Ascii.t>>), 2,
               <<[Label(1) EXCEPT !.m = 2, !.d = 30], Label(2)>>, TRUE, TRUE) >>

SmallRasters == (1..7) \cup {10}

Paths(ids) == {Rasters[i].path : i \in ids}

\* the raster file at a path
RasterAt(path) == Rasters[CHOOSE i \in DOMAIN Rasters : Rasters[i].path = path]

\* src.index(lon, lat): the (row, col) of the pixel that holds the point, on
\* a north-up grid of one degree whose corner is at 90 N, 180 W
src_index(coord) == <<90 - coord[2], coord[1] + 180>>

\* band_data[row, col]: the raw cell value of a band at a pixel.  It is a
\* content of the file: two towers at one pixel read the same value
RawValue(path, band_num, pixel) ==
    ((Len(path) * 11 + band_num * 7 + pixel[1] * 13 + pixel[2] * 5) % 73) * 100 - 3600

\* sorted(tiff_files): insert path x into the sorted sequence s
RECURSIVE insert_path(_, _)
insert_path(s, x) ==
    IF s = <<>> THEN <<x>>
    ELSE IF StrLess(x, Head(s)) THEN <<x>> \o s
    ELSE <<Head(s)>> \o insert_path(Tail(s), x)

\* sorted_paths with the sort left out
unsorted_paths(s) == s

RECURSIVE sorted_paths(_)
sorted_paths(s) ==
    IF s = <<>> THEN <<>>
    ELSE insert_path(sorted_paths(SubSeq(s, 1, Len(s) - 1)), s[Len(s)])

(***************************************************************************)
(* batch_data: a Python list of record dicts.  The list is kept run-length *)
(* encoded: a "range" run stands for n records Canonical(ctx, band, pos)   *)
(* that follow each other in the order of the two loops (bands outside,    *)
(* valid poles inside) from its first (band, lo); a "one" run holds any    *)
(* other record as it is.  The encoding loses nothing: batch_nth gives     *)
(* every element back.                                                     *)
(***************************************************************************)
file_name_of(path) == splitext_root(basename(path))

\* lines 150-156: the dict appended for the pole at position pos (from 1)
make_record(pole, file_name, band_num, band_time, value) ==
    [tower_serial |-> pole[1], file_name |-> file_name, band |-> band_num,
     band_time |-> band_time, value |-> value]

\* the record lines 137-156 build for band band_num and the pos-th valid pole
\* of registry content ctx.towers, in file ctx.path, for ctx.data_type
Canonical(ctx, band_num, pos) ==
    LET pole == ValidTable[ctx.towers].valid_poles[pos]
        pixel == src_index(ValidTable[ctx.towers].valid_coords[pos])
    IN make_record(pole, file_name_of(ctx.path), band_num,
                   RasterAt(ctx.path).descriptions[band_num],
                   value_calculators(ctx.data_type, RawValue(ctx.path, band_num, pixel)))

NoRecord == make_record(<<0>>, <<>>, 0, NoLabel, 0)

EmptyBatch == [len |-> 0, runs |-> <<>>]

\* the place of (band_num, pos) in the order of the loops of lines 130 and 141
loop_index(ctx, band_num, pos) ==
    (band_num - 1) * Len(ValidTable[ctx.towers].valid_poles) + (pos - 1)

\* the k-th record of a "range" run
run_nth(r, k) ==
    LET width == Len(ValidTable[r.ctx.towers].valid_poles)
        at == loop_index(r.ctx, r.band, r.lo) + (k - 1)
    IN Canonical(r.ctx, (at \div width) + 1, (at % width) + 1)

\* the bands of the records of a run
run_bands(r) ==
    IF r.kind = "one" THEN {r.band}
    ELSE LET width == Len(ValidTable[r.ctx.towers].valid_poles)
             last == loop_index(r.ctx, r.band, r.lo) + (r.n - 1)
         IN r.band..((last \div width) + 1)

\* batch_data.append(rec); ctx, band_num and pos say where rec was built
batch_append(b, rec, ctx, band_num, pos) ==
    LET m == Len(b.runs)
        canon == /\ pos \in 1..Len(ValidTable[ctx.towers].valid_poles)
                 /\ rec = Canonical(ctx, band_num, pos)
        one == [kind |-> "one", ctx |-> ctx, band |-> band_num, lo |-> pos, n |-> 1, rec |-> rec]
        new == [kind |-> "range", ctx |-> ctx, band |-> band_num, lo |-> pos, n |-> 1, rec |-> NoRecord]
    IN IF ~canon THEN [len |-> b.len + 1, runs |-> Append(b.runs, one)]
       ELSE IF /\ m > 0 /\ b.runs[m].kind = "range" /\ b.runs[m].ctx = ctx
               /\ loop_index(ctx, b.runs[m].band, b.runs[m].lo) + b.runs[m].n
                      = loop_index(ctx, band_num, pos)
       THEN [len |-> b.len + 1, runs |-> [b.runs EXCEPT ![m].n = @ + 1]]
       ELSE [len |-> b.len + 1, runs |-> Append(b.runs, new)]

\* len(batch_data)
batch_len(b) == b.len

run_len(r) == r.n

\* batch_data[k - 1]: the k-th element
RECURSIVE nth_in_runs(_, _)
nth_in_runs(runs, k) ==
    LET r == Head(runs)
    IN IF k <= run_len(r)
       THEN IF r.kind = "one" THEN r.rec ELSE run_nth(r, k)
       ELSE nth_in_runs(Tail(runs), k - run_len(r))

batch_nth(b, k) == nth_in_runs(b.runs, k)

\* the list written out
batch_records(b) == [k \in 1..b.len |-> batch_nth(b, k)]

(***************************************************************************)
(* State.  Every worker process p of the pool has its own copy of the      *)
(* locals of process_data_type, load_legacy_data and process_tiff_file.    *)
(***************************************************************************)
VARIABLES
    registry,      \* the registry content the SELECT returns (index of Registries)
    glob_result,   \* per data type, the paths glob.glob() returns, in its order
    cpu,           \* cpu_count()
    may_fail,      \* the calls that can raise in this run (database, driver)
    taskqueue,     \* chunks of data_configs no pool worker has taken yet
    chunk,         \* per process, the rest of the chunk it is working on
    task_state,    \* per entry of data_configs: how far pool.map has got with it
    pc,            \* per process, where it is in the code
    data_type,     \* per process, data_type of load_legacy_data
    tiff_files,    \* per process, sorted(tiff_files)
    file_pos,      \* per process, position of the for loop of line 216
    local,         \* per process, the locals of process_tiff_file
    open_conns,    \* per process, its open database connections, oldest first
    src_open,      \* per process, whether the raster handle is open
    db_log,        \* per process, what the current file did on its cursor
    finished,      \* per process, the calls of process_tiff_file that ended
    earlier,       \* the runs of process_data_type that came before this one
    probe          \* a function called on its own: its name, arguments, result

vars == <<registry, glob_result, cpu, may_fail, taskqueue, chunk, task_state, pc, data_type,
          tiff_files, file_pos, local, open_conns, src_open, db_log, finished,
          earlier, probe>>

world == <<registry, glob_result, cpu, may_fail>>
pool == <<taskqueue, chunk, task_state>>
aside == <<earlier, probe>>

\* the processes of the run: the pool workers, or the one direct caller
Procs == DOMAIN pc
\* a pool never has more workers than tasks (line 263)
Workers == 1..Len(data_configs)
\* the data types of a run: the entries of data_configs
AllTypes == {data_configs[i] : i \in DOMAIN data_configs}

NoLocals ==
    [file_name |-> <<>>, towers |-> 0, base_time |-> NoTime, band_count |-> 0,
     band_index |-> 0, pole_idx |-> 0, batch_data |-> EmptyBatch, total_records |-> 0]

\* sequences of at most MaxFiles different paths
GlobResults(ids) ==
    {g \in UNION {[1..n -> Paths(ids)] : n \in 0..MaxFiles} :
        \A i, j \in DOMAIN g : i # j => g[i] # g[j]}

Min(a, b) == IF a <= b THEN a ELSE b

\* line 263
num_processes == Min(Min(Len(data_configs), cpu), MAX_DB_CONNECTIONS)

\* Pool.map's default chunk size: divmod(len(iterable), len(pool) * 4), rounded up
chunksize(n_tasks, n_procs) ==
    LET q == n_tasks \div (n_procs * 4)
    IN IF n_tasks % (n_procs * 4) # 0 THEN q + 1 ELSE q

\* the task numbers 1..n cut into consecutive chunks of size c
chunks_of(n, c) ==
    [k \in 1..((n + c - 1) \div c) |-> [i \in 1..Min(c, n - (k - 1) * c) |-> (k - 1) * c + i]]

\* an entry of data_configs in pool.map: how far it is, the pool worker that
\* has it, and how its files ended once process_data_type has returned
Task(state, worker, files) == [state |-> state, worker |-> worker, files |-> files]

Outcomes(ended) == [k \in DOMAIN ended |-> ended[k].outcome]

\* the calls that raise when the database is away or refuses the statement
Faults == {"loader_connect", "connect", "select", "execute_raises", "commit_raises"}

\* whether a call that can fail goes through
Goes(call) == IF call \in may_fail THEN BOOLEAN ELSE {TRUE}

\* no function is called on its own
NoProbe == [fn |-> "none", args |-> <<>>, result |-> <<>>]

\* a process that runs process_data_type(data_config) on its own, the calls
\* in faults being able to raise
DirectCallWith(dt, files, reg, faults) ==
    /\ registry = reg
    /\ may_fail = faults
    /\ earlier = <<>>
    /\ probe = NoProbe
    /\ glob_result = [d \in AllTypes |-> IF d = dt THEN files ELSE <<>>]
    /\ cpu = 1
    /\ taskqueue = <<>>
    /\ chunk = [p \in {1} |-> <<>>]
    /\ task_state = [i \in DOMAIN data_configs |-> Task("none", 0, <<>>)]
    /\ pc = [p \in {1} |-> "init"]
    /\ data_type = [p \in {1} |-> dt]
    /\ tiff_files = [p \in {1} |-> <<>>]
    /\ file_pos = [p \in {1} |-> 0]
    /\ local = [p \in {1} |-> NoLocals]
    /\ open_conns = [p \in {1} |-> <<>>]
    /\ src_open = [p \in {1} |-> FALSE]
    /\ db_log = [p \in {1} |-> <<>>]
    /\ finished = [p \in {1} |-> <<>>]

DirectCall(dt, files, reg) == DirectCallWith(dt, files, reg, Faults)

\* the data types a direct call is made for, two of those main() passes
LoaderTypes == {"wind_speed", "wind_direction"}

Init ==
    \E dt \in LoaderTypes, files \in GlobResults(SmallRasters), reg \in SmallRegistries :
        DirectCall(dt, files, reg)

(***************************************************************************)
(* process_tiff_file, step by step.                                        *)
(***************************************************************************)
\* tiff_file of the for loop of line 216
path_of(p) == tiff_files[p][file_pos[p]]

\* valid_poles of line 110, for the towers fetched at line 107
valid_poles_of(towers) == ValidTable[towers].valid_poles
valid_coords_of(towers) == ValidTable[towers].valid_coords

\* what one write does: the CALL and the commit go through, or cur.execute
\* raises, or conn.commit raises
DbOutcomes == {"ok"} \cup (may_fail \cap {"execute_raises", "commit_raises"})

\* write_batch with the commit issued whether or not the CALL returned
write_batch_commit_always(log, procedure, file_name, base_time, batch, outcome) ==
    LET call == [op |-> "call", procedure |-> procedure, file_name |-> file_name,
                 base_time |-> base_time, batch |-> batch,
                 ok |-> outcome # "execute_raises"]
        commit == [op |-> "commit", procedure |-> None, file_name |-> <<>>,
                   base_time |-> NoTime, batch |-> EmptyBatch, ok |-> outcome = "ok"]
    IN Append(Append(log, call), commit)

\* lines 164-167 and 175-178: the CALL, and the commit when the CALL returned
write_batch(log, procedure, file_name, base_time, batch, outcome) ==
    LET call == [op |-> "call", procedure |-> procedure, file_name |-> file_name,
                 base_time |-> base_time, batch |-> batch,
                 ok |-> outcome # "execute_raises"]
        commit == [op |-> "commit", procedure |-> None, file_name |-> <<>>,
                   base_time |-> NoTime, batch |-> EmptyBatch, ok |-> outcome = "ok"]
    IN IF outcome = "execute_raises" THEN Append(log, call)
       ELSE Append(Append(log, call), commit)

\* flush_due with > for >=
flush_due_late(batch) == batch_len(batch) > BATCH_LIMIT

\* line 160
flush_due(batch) == batch_len(batch) >= BATCH_LIMIT

\* base_time_text taken from the last band
base_time_text_last(descriptions) == descriptions[Len(descriptions)]

\* line 115: src.descriptions[0]
base_time_text(descriptions) == descriptions[1]

\* batch_after_write with the list kept as it is
batch_after_write_kept(batch) == batch

\* line 169: batch_data = []
batch_after_write(batch) == EmptyBatch

\* line 118
capped_band_count(count) == Min(count, BAND_CAP)

\* lines 121-127: "ok", or the exception the try block catches; zip(*[]) leaves
\* nothing to unpack into rows, cols
index_result(raster, coords) ==
    IF Len(coords) > 0 /\ ~raster.geo THEN "index_error"
    ELSE IF Len(coords) = 0 THEN "unpack_error"
    ELSE "ok"

\* on_index_error with the exception passed on
on_index_error_raised == "raised"

\* line 127: the except branch returns False
on_index_error == "skipped"

\* lines 189-193 and 216-222: the for loop goes on to the next file after a
\* call that returned; an exception is raised again by process_tiff_file and
\* ends the loop in the except branch of load_legacy_data
loop_continues(outcome) == outcome # "raised"

\* lines 183-185 are reached by the normal end alone
closes_connection(outcome) == outcome = "done"

\* psycopg2.connect: one more open connection (and cursor) of the process
opened(conns, kind, path) == Append(conns, [kind |-> kind, path |-> path])

\* cur.close(); conn.close() of the connection opened last for this path
closed(conns, path) ==
    LET mine == {i \in DOMAIN conns : conns[i] = [kind |-> "file", path |-> path]}
        last == CHOOSE i \in mine : \A j \in mine : j <= i
    IN IF mine = {} THEN conns
       ELSE [i \in 1..(Len(conns) - 1) |-> IF i < last THEN conns[i] ELSE conns[i + 1]]

\* process_tiff_file is left: by return True ("done"), by return False
\* ("skipped") or by an exception ("raised"); loc are its locals then
Leave(p, outcome, log, loc) ==
    /\ finished' = [finished EXCEPT ![p] =
            Append(@, [data_type |-> data_type[p], path |-> path_of(p),
                       outcome |-> outcome, log |-> log, locals |-> loc])]
    /\ open_conns' = [open_conns EXCEPT ![p] =
            IF closes_connection(outcome) THEN closed(@, path_of(p)) ELSE @]
    /\ src_open' = [src_open EXCEPT ![p] = FALSE]
    /\ db_log' = [db_log EXCEPT ![p] = <<>>]
    /\ local' = [local EXCEPT ![p] = NoLocals]
    /\ IF loop_continues(outcome) /\ file_pos[p] < Len(tiff_files[p])
       THEN /\ pc' = [pc EXCEPT ![p] = "connect"]
            /\ file_pos' = [file_pos EXCEPT ![p] = @ + 1]
       ELSE /\ pc' = [pc EXCEPT ![p] = "returned"]
            /\ file_pos' = file_pos

\* line 242: IndependentLegacyDataLoader(db_params) connects
InitLoader(p) ==
    /\ p \in Procs
    /\ pc[p] = "init"
    /\ \E ok \in Goes("loader_connect") :
         IF ok
         THEN /\ open_conns' = [open_conns EXCEPT ![p] = opened(@, "self", <<>>)]
              /\ pc' = [pc EXCEPT ![p] = "discover"]
         ELSE /\ open_conns' = open_conns
              /\ pc' = [pc EXCEPT ![p] = "raised"]
    /\ UNCHANGED <<aside, world, pool, data_type, tiff_files, file_pos, local, src_open,
                   db_log, finished>>

\* lines 202-216: glob, the empty case, sorted
Discover(p) ==
    /\ p \in Procs
    /\ pc[p] = "discover"
    /\ LET found == glob_result[data_type[p]]
       IN IF found = <<>>
          THEN /\ pc' = [pc EXCEPT ![p] = "returned"]
               /\ UNCHANGED <<tiff_files, file_pos>>
          ELSE /\ tiff_files' = [tiff_files EXCEPT ![p] = sorted_paths(found)]
               /\ file_pos' = [file_pos EXCEPT ![p] = 1]
               /\ pc' = [pc EXCEPT ![p] = "connect"]
    /\ UNCHANGED <<aside, world, pool, data_type, local, open_conns, src_open, db_log, finished>>

\* lines 86-94: the connection and the cursor of this file
Connect(p) ==
    /\ p \in Procs
    /\ pc[p] = "connect"
    /\ \E ok \in Goes("connect") :
         IF ok
         THEN /\ open_conns' = [open_conns EXCEPT ![p] = opened(@, "file", path_of(p))]
              /\ pc' = [pc EXCEPT ![p] = "query"]
              /\ UNCHANGED <<file_pos, local, src_open, db_log, finished>>
         ELSE Leave(p, "raised", db_log[p], local[p])
    /\ UNCHANGED <<aside, world, pool, data_type, tiff_files>>

\* lines 97-110: file_name, the SELECT, get_valid_coordinates.  file_name is
\* bound before the SELECT is sent, so it is bound on both ways out; the
\* fault is cur.execute() or cur.fetchall() raising, which leave alike
Query(p) ==
    /\ p \in Procs
    /\ pc[p] = "query"
    /\ LET named == [local[p] EXCEPT !.file_name = file_name_of(path_of(p))]
       IN \E ok \in Goes("select") :
            IF ok
            THEN /\ local' = [local EXCEPT ![p] = [named EXCEPT !.towers = registry]]
                 /\ pc' = [pc EXCEPT ![p] = "open"]
                 /\ UNCHANGED <<file_pos, open_conns, src_open, db_log, finished>>
            ELSE Leave(p, "raised", db_log[p], named)
    /\ UNCHANGED <<aside, world, pool, data_type, tiff_files>>

\* lines 113-134: open, base_time, band_count, the pixel indices, read
OpenRaster(p) ==
    /\ p \in Procs
    /\ pc[p] = "open"
    /\ LET raster == RasterAt(path_of(p))
           parsed == strptime(base_time_text(raster.descriptions))
       IN IF ~raster.opens \/ ~parsed.ok
          THEN Leave(p, "raised", db_log[p], local[p])
          ELSE IF index_result(raster, valid_coords_of(local[p].towers)) # "ok"
          THEN Leave(p, on_index_error, db_log[p],
                     [local[p] EXCEPT !.base_time = parsed.value,
                                      !.band_count = capped_band_count(raster.count)])
          ELSE /\ local' = [local EXCEPT ![p].base_time = parsed.value,
                                         ![p].band_count = capped_band_count(raster.count),
                                         ![p].band_index = 0,
                                         ![p].batch_data = EmptyBatch,
                                         ![p].total_records = 0]
               /\ src_open' = [src_open EXCEPT ![p] = TRUE]
               /\ pc' = [pc EXCEPT ![p] = IF capped_band_count(raster.count) > 0
                                          THEN "band" ELSE "tail"]
               /\ UNCHANGED <<file_pos, open_conns, db_log, finished>>
    /\ UNCHANGED <<aside, world, pool, data_type, tiff_files>>

\* lines 137-146: the head of the band loop up to the value calculator, which
\* is a KeyError for a data type that has none
BandStart(p) ==
    /\ p \in Procs
    /\ pc[p] = "band"
    /\ IF data_type[p] \notin calculator_keys
       THEN Leave(p, "raised", db_log[p], local[p])
       ELSE /\ local' = [local EXCEPT ![p].pole_idx = 0]
            /\ pc' = [pc EXCEPT ![p] = "tower"]
            /\ UNCHANGED <<file_pos, open_conns, src_open, db_log, finished>>
    /\ UNCHANGED <<aside, world, pool, data_type, tiff_files>>

\* the end of one turn of the tower loop: the next pole, the next band, or
\* the end of both loops
Advance(p, loc, log) ==
    LET last_pole == loc.pole_idx + 1 >= Len(valid_poles_of(loc.towers))
        last_band == loc.band_index + 1 >= loc.band_count
    IN /\ local' = [local EXCEPT ![p] =
               IF last_pole
               THEN [loc EXCEPT !.pole_idx = 0, !.band_index = @ + 1]
               ELSE [loc EXCEPT !.pole_idx = @ + 1]]
       /\ pc' = [pc EXCEPT ![p] = IF ~last_pole THEN "tower"
                                  ELSE IF last_band THEN "tail" ELSE "band"]
       /\ db_log' = [db_log EXCEPT ![p] = log]
       /\ UNCHANGED <<file_pos, open_conns, src_open, finished>>

\* lines 149-169: one turn of the tower loop
AppendRecord(p) ==
    /\ p \in Procs
    /\ pc[p] = "tower"
    /\ LET loc == local[p]
           pos == loc.pole_idx + 1
           pole == valid_poles_of(loc.towers)[pos]
           band_num == loc.band_index + 1
           band_time == RasterAt(path_of(p)).descriptions[band_num]
           pixel == src_index(valid_coords_of(loc.towers)[pos])
           value == value_calculators(data_type[p],
                                      RawValue(path_of(p), band_num, pixel))
           ctx == [towers |-> loc.towers, path |-> path_of(p), data_type |-> data_type[p]]
           grown == [loc EXCEPT
                       !.batch_data = batch_append(@,
                           make_record(pole, loc.file_name, band_num, band_time, value),
                           ctx, band_num, pos),
                       !.total_records = @ + 1]
           procedure == procedure_get(data_type[p])
       IN IF flush_due(grown.batch_data) /\ procedure # None
          THEN \E outcome \in DbOutcomes :
                 LET log == write_batch(db_log[p], procedure, loc.file_name,
                                        loc.base_time, grown.batch_data, outcome)
                 IN IF outcome = "ok"
                    THEN Advance(p, [grown EXCEPT !.batch_data = batch_after_write(@)], log)
                    ELSE Leave(p, "raised", log, grown)
          ELSE Advance(p, grown, db_log[p])
    /\ UNCHANGED <<aside, world, pool, data_type, tiff_files>>

\* lines 171-187: the rest of the batch, close, return True
FlushRest(p) ==
    /\ p \in Procs
    /\ pc[p] = "tail"
    /\ LET loc == local[p]
           procedure == procedure_get(data_type[p])
       IN IF batch_len(loc.batch_data) > 0 /\ procedure # None
          THEN \E outcome \in DbOutcomes :
                 LET log == write_batch(db_log[p], procedure, loc.file_name,
                                        loc.base_time, loc.batch_data, outcome)
                 IN Leave(p, IF outcome = "ok" THEN "done" ELSE "raised", log, loc)
          ELSE Leave(p, "done", db_log[p], loc)
    /\ UNCHANGED <<aside, world, pool, data_type, tiff_files>>

Next ==
    \E p \in Workers :
        \/ InitLoader(p)
        \/ Discover(p)
        \/ Connect(p)
        \/ Query(p)
        \/ OpenRaster(p)
        \/ BandStart(p)
        \/ AppendRecord(p)
        \/ FlushRest(p)

Spec == Init /\ [][Next]_vars

(***************************************************************************)
(* The same worker on one raster with many bands and a large registry, so  *)
(* that the batch reaches BATCH_LIMIT.                                     *)
(***************************************************************************)
LargeInputs == {<<8, 6>>, <<9, 7>>}

InitBatch ==
    \E input \in LargeInputs :
        DirectCall("wind_speed", <<Rasters[input[1]].path>>, input[2])

SpecBatch == InitBatch /\ [][Next]_vars

(***************************************************************************)
(* The program is run again on the same files and the same towers: glob    *)
(* and the SELECT may return them in another order.  No call raises.       *)
(***************************************************************************)
RerunRegistries == {1, 4, 8}
\* two rasters that are processed, one without a description, one that is skipped
RerunRasters == {1, 2, 4, 6}
RerunTypes == {"wind_direction"}

Range(f) == {f[i] : i \in DOMAIN f}

\* the sequences that hold the elements of seq, each once, in any order
Reorderings(seq) ==
    {g \in [DOMAIN seq -> Range(seq)] : \A i, j \in DOMAIN g : i # j => g[i] # g[j]}

\* the registry contents that hold the same towers as reg
SameTowers(reg) ==
    {r \in RerunRegistries : Range(Registries[r]) = Range(Registries[reg])}

InitRerun ==
    \E dt \in RerunTypes, files \in GlobResults(RerunRasters), reg \in RerunRegistries :
        DirectCallWith(dt, files, reg, {})

\* process_data_type has returned and the process is gone; the program is
\* started again for the same data type
Rerun(p) ==
    /\ p \in Procs
    /\ pc[p] = "returned"
    /\ Len(earlier) < MaxReruns
    /\ earlier' = Append(earlier, [found |-> glob_result[data_type[p]],
                                   registry |-> registry,
                                   finished |-> finished[p]])
    /\ \E files \in Reorderings(glob_result[data_type[p]]), reg \in SameTowers(registry) :
          /\ glob_result' = [glob_result EXCEPT ![data_type[p]] = files]
          /\ registry' = reg
    /\ pc' = [pc EXCEPT ![p] = "init"]
    /\ finished' = [finished EXCEPT ![p] = <<>>]
    /\ tiff_files' = [tiff_files EXCEPT ![p] = <<>>]
    /\ file_pos' = [file_pos EXCEPT ![p] = 0]
    /\ open_conns' = [open_conns EXCEPT ![p] = <<>>]
    /\ UNCHANGED <<cpu, may_fail, pool, data_type, local, src_open, db_log, probe>>

NextRerun == Next \/ \E p \in Workers : Rerun(p)

SpecRerun == InitRerun /\ [][NextRerun]_vars

(***************************************************************************)
(* A method of the loader called on its own, with no file and no process.  *)
(***************************************************************************)
NoProcess(call) ==
    /\ probe = call
    /\ earlier = <<>>
    /\ registry = 1
    /\ may_fail = {}
    /\ glob_result = [d \in AllTypes |-> <<>>]
    /\ cpu = 1
    /\ taskqueue = <<>>
    /\ task_state = [i \in DOMAIN data_configs |-> Task("none", 0, <<>>)]
    /\ chunk = <<>> /\ pc = <<>> /\ data_type = <<>> /\ tiff_files = <<>>
    /\ file_pos = <<>> /\ local = <<>> /\ open_conns = <<>> /\ src_open = <<>>
    /\ db_log = <<>> /\ finished = <<>>

\* the call returns
Returns(value) ==
    /\ probe.result = <<>>
    /\ probe' = [probe EXCEPT !.result = <<value>>]
    /\ UNCHANGED <<earlier, world, pool, pc, data_type, tiff_files, file_pos, local,
                   open_conns, src_open, db_log, finished>>

\* latitudes and longitudes around the bounds, and what is no number
LatSamples ==
    {Num(-91), Num(-90), Num(40), Num(90), Num(91), NaN, Inf, NoneCoord, Text(40), BadText}
LonSamples ==
    {Num(-181), Num(-180), Num(100), Num(180), Num(181), NaN, Inf, NoneCoord,
     Text(29), BadText}
CoordSamples ==
    {<<lat, Num(29)>> : lat \in LatSamples} \cup {<<Num(40), lon>> : lon \in LonSamples}
        \cup {<<NaN, NoneCoord>>, <<Num(100), Num(100)>>}

\* the ways to give n towers different serials
Serials(n) == {f \in [1..n -> 1..MaxTowers] : \A i, j \in 1..n : i # j => f[i] # f[j]}

\* the towers as fetchall() returns them: (serial, latitude, longitude)
Fetched(ser, c) == [i \in DOMAIN ser |-> <<ser[i], c[i][1], c[i][2]>>]

GetValidCoordinatesOf(poles) ==
    NoProcess([fn |-> "get_valid_coordinates", args |-> <<poles>>, result |-> <<>>])

InitValidate ==
    \/ \E n \in 0..MaxTowers :
          \E ser \in Serials(n), c \in [1..n -> CoordSamples] :
              GetValidCoordinatesOf(Fetched(ser, c))
    \/ \E r \in {3, 4} : GetValidCoordinatesOf(Registries[r])

\* lines 44-73
CallGetValidCoordinates ==
    /\ probe.fn = "get_valid_coordinates"
    /\ Returns(get_valid_coordinates(probe.args[1]))

SpecValidate == InitValidate /\ [][CallGetValidCoordinates]_vars

\* raw values around the wrap of the direction
RawSamples == {-3601, -1801, -1800, -1, 0, 1, 1799, 1800, 1801, 3600}

CalculatorOf(dt, raw_values) ==
    NoProcess([fn |-> "value_calculators", args |-> <<dt, raw_values>>, result |-> <<>>])

InitTransform ==
    \E dt \in calculator_keys :
        \/ \E r \in (-MaxRawValue)..MaxRawValue : CalculatorOf(dt, <<r>>)
        \/ \E n \in 0..MaxRaw : \E raw_values \in [1..n -> RawSamples] :
              CalculatorOf(dt, raw_values)

\* lines 36-42 and 146
CallValueCalculator ==
    /\ probe.fn = "value_calculators"
    /\ Returns(calculated_values(probe.args[1], probe.args[2]))

SpecTransform == InitTransform /\ [][CallValueCalculator]_vars

(***************************************************************************)
(* main(): Pool(processes=num_processes).map(process_data_type,            *)
(* data_configs).  map cuts data_configs into chunks; a pool worker takes  *)
(* a chunk and calls process_data_type on its entries one after the other; *)
(* an exception ends the chunk.                                            *)
(***************************************************************************)
\* no file for any data type, or one file for each: one band for two of the
\* data types, two bands for the others
PoolGlobs ==
    {[d \in AllTypes |-> <<>>],
     [d \in AllTypes |-> IF d \in {"wind_gust", "ice_mass"} THEN <<Rasters[1].path>>
                         ELSE <<Rasters[2].path>>]}
CpuCounts == {1, 2}
PoolFaults == {"loader_connect", "execute_raises"}

InitPool ==
    \E n \in CpuCounts, files \in PoolGlobs :
        /\ registry = 2
        /\ may_fail = PoolFaults
        /\ earlier = <<>>
        /\ probe = NoProbe
        /\ glob_result = files
        /\ cpu = n
        /\ taskqueue = chunks_of(Len(data_configs),
                                 chunksize(Len(data_configs), num_processes))
        /\ chunk = [p \in 1..num_processes |-> <<>>]
        /\ task_state = [i \in DOMAIN data_configs |-> Task("queued", 0, <<>>)]
        /\ pc = [p \in 1..num_processes |-> "idle"]
        /\ data_type = [p \in 1..num_processes |-> None]
        /\ tiff_files = [p \in 1..num_processes |-> <<>>]
        /\ file_pos = [p \in 1..num_processes |-> 0]
        /\ local = [p \in 1..num_processes |-> NoLocals]
        /\ open_conns = [p \in 1..num_processes |-> <<>>]
        /\ src_open = [p \in 1..num_processes |-> FALSE]
        /\ db_log = [p \in 1..num_processes |-> <<>>]
        /\ finished = [p \in 1..num_processes |-> <<>>]

\* the pool worker calls process_data_type(data_configs[i])
Call(p, i) ==
    /\ finished' = [finished EXCEPT ![p] = <<>>]
    /\ data_type' = [data_type EXCEPT ![p] = data_configs[i]]
    /\ tiff_files' = [tiff_files EXCEPT ![p] = <<>>]
    /\ file_pos' = [file_pos EXCEPT ![p] = 0]
    /\ pc' = [pc EXCEPT ![p] = "init"]

\* an idle pool worker takes the next chunk and starts on its first entry
TakeChunk(p) ==
    /\ p \in Procs
    /\ pc[p] = "idle"
    /\ taskqueue # <<>>
    /\ taskqueue' = Tail(taskqueue)
    /\ chunk' = [chunk EXCEPT ![p] = Head(taskqueue)]
    /\ Call(p, Head(Head(taskqueue)))
    /\ task_state' = [task_state EXCEPT ![Head(Head(taskqueue))] = Task("running", p, <<>>)]
    /\ UNCHANGED <<aside, world, local, open_conns, src_open, db_log>>

\* process_data_type returned: the next entry of the chunk, or the chunk is done
TaskReturns(p) ==
    /\ p \in Procs
    /\ pc[p] = "returned"
    /\ chunk[p] # <<>>
    /\ chunk' = [chunk EXCEPT ![p] = Tail(@)]
    /\ IF Tail(chunk[p]) # <<>>
       THEN /\ Call(p, Head(Tail(chunk[p])))
            /\ task_state' = [task_state EXCEPT
                   ![Head(chunk[p])] = Task("returned", p, Outcomes(finished[p])),
                   ![Head(Tail(chunk[p]))] = Task("running", p, <<>>)]
       ELSE /\ task_state' = [task_state EXCEPT
                   ![Head(chunk[p])] = Task("returned", p, Outcomes(finished[p]))]
            /\ pc' = [pc EXCEPT ![p] = "idle"]
            /\ UNCHANGED <<data_type, tiff_files, file_pos, finished>>
    /\ UNCHANGED <<aside, world, taskqueue, local, open_conns, src_open, db_log>>

\* process_data_type raised: the exception is the result of the whole chunk,
\* the entries behind it are not called
TaskRaises(p) ==
    /\ p \in Procs
    /\ pc[p] = "raised"
    /\ chunk[p] # <<>>
    /\ chunk' = [chunk EXCEPT ![p] = <<>>]
    /\ task_state' = [i \in DOMAIN task_state |->
                        IF i = Head(chunk[p]) THEN Task("raised", p, <<>>)
                        ELSE IF \E k \in 2..Len(chunk[p]) : chunk[p][k] = i
                             THEN Task("dropped", p, <<>>)
                        ELSE task_state[i]]
    /\ pc' = [pc EXCEPT ![p] = "idle"]
    /\ UNCHANGED <<aside, world, taskqueue, data_type, tiff_files, file_pos, local,
                   open_conns, src_open, db_log, finished>>

NextPool ==
    \/ Next
    \/ \E p \in Workers : TakeChunk(p) \/ TaskReturns(p) \/ TaskRaises(p)

SpecPool == InitPool /\ [][NextPool]_vars

(***************************************************************************)
(* Properties.                                                             *)
(***************************************************************************)
InFile == {"connect", "query", "open", "band", "tower", "tail"}

\* the logs of a process: of the files that ended and of the file in work
Logs(p) == {finished[p][k].log : k \in DOMAIN finished[p]} \cup {db_log[p]}

\* the CALLs of a log, in order
Calls(log) == SelectSeq(log, LAMBDA e : e.op = "call")

\* the number of records in the batches of the CALLs that were committed
RECURSIVE CommittedRecords(_)
CommittedRecords(log) ==
    IF Len(log) < 2 THEN 0
    ELSE IF log[1].op = "call" /\ log[1].ok /\ log[2].op = "commit" /\ log[2].ok
         THEN batch_len(log[1].batch) + CommittedRecords(SubSeq(log, 3, Len(log)))
         ELSE CommittedRecords(Tail(log))

\* the records of all batches a log submitted, in order of submission
RECURSIVE Submitted(_)
Submitted(log) ==
    IF log = <<>> THEN <<>>
    ELSE IF Head(log).op = "call"
         THEN batch_records(Head(log).batch) \o Submitted(Tail(log))
         ELSE Submitted(Tail(log))

\* the entry went through connect, SELECT, open and base_time
ReachedIndex(e) ==
    /\ e.locals.towers # 0
    /\ RasterAt(e.path).opens
    /\ strptime(RasterAt(e.path).descriptions[1]).ok

\* C1: a file that raises does not keep load_legacy_data from the files
\* behind it: when load_legacy_data has returned, process_tiff_file has been
\* called on every file of the sorted list.
C1_FailingFileDoesNotAbort ==
    \A p \in Procs :
        pc[p] = "returned" => Len(finished[p]) = Len(tiff_files[p])

\* C2: batch bound.  While a file is being processed the batch holds fewer
\* than BATCH_LIMIT records, total_records div BATCH_LIMIT batches have been
\* submitted, each of exactly BATCH_LIMIT records; no submitted batch is
\* empty or larger than BATCH_LIMIT; a file that ended without failure has
\* submitted N div BATCH_LIMIT full batches and then the N mod BATCH_LIMIT
\* records that remain, if any, N being valid towers times processed bands.
C2_BatchBound ==
    \A p \in Procs :
        /\ \A log \in Logs(p) : \A k \in DOMAIN log :
              log[k].op = "call" =>
                  batch_len(log[k].batch) \in 1..BATCH_LIMIT
        /\ pc[p] \in {"band", "tower", "tail"} =>
              LET calls == Calls(db_log[p])
              IN /\ batch_len(local[p].batch_data) < BATCH_LIMIT
                 /\ batch_len(local[p].batch_data) = local[p].total_records % BATCH_LIMIT
                 /\ Len(calls) = local[p].total_records \div BATCH_LIMIT
                 /\ \A k \in DOMAIN calls : batch_len(calls[k].batch) = BATCH_LIMIT
        /\ \A k \in DOMAIN finished[p] :
              LET e == finished[p][k]
                  calls == Calls(e.log)
                  N == Len(valid_poles_of(e.locals.towers)) * e.locals.band_count
                  full == N \div BATCH_LIMIT
              IN e.outcome = "done" =>
                  /\ e.locals.total_records = N
                  /\ Len(calls) = full + (IF N % BATCH_LIMIT # 0 THEN 1 ELSE 0)
                  /\ \A i \in 1..full : batch_len(calls[i].batch) = BATCH_LIMIT
                  /\ N % BATCH_LIMIT # 0 =>
                        batch_len(calls[full + 1].batch) = N % BATCH_LIMIT

\* C2 witness: a file ended without failure after two full batches and a rest
C2_Witness ==
    \E p \in Procs : \E k \in DOMAIN finished[p] :
        LET calls == Calls(finished[p][k].log)
        IN /\ finished[p][k].outcome = "done"
           /\ Len(calls) = 3
           /\ batch_len(calls[1].batch) = BATCH_LIMIT
           /\ batch_len(calls[2].batch) = BATCH_LIMIT
           /\ batch_len(calls[3].batch) \in 1..(BATCH_LIMIT - 1)

\* the log is a run of CALLs that returned, each with its commit right
\* behind it, ended at most by one CALL that raised or one commit that raised
CommitProtocol(log) ==
    \A k \in DOMAIN log :
        /\ log[k].op = "commit" => k > 1 /\ log[k - 1].op = "call" /\ log[k - 1].ok
        /\ (log[k].op = "call" /\ log[k].ok) => k < Len(log) /\ log[k + 1].op = "commit"
        /\ ~log[k].ok => k = Len(log)

\* C3: commit protocol.  A commit comes only right behind a CALL that
\* returned; a CALL that raised is the last thing the file does on its
\* cursor (no commit, no second try, no further batch), the file ends by the
\* exception, and the batches committed before it are all the records of the
\* file but the ones of the batch that failed.
C3_CommitProtocol ==
    \A p \in Procs :
        /\ \A log \in Logs(p) : CommitProtocol(log)
        /\ \A log \in Logs(p) : \A i, j \in DOMAIN log :
              (log[i].op = "call" /\ log[j].op = "call" /\ i # j) =>
                  log[i].batch # log[j].batch
        /\ \A k \in DOMAIN finished[p] :
              LET e == finished[p][k]
              IN /\ (e.log # <<>> /\ ~e.log[Len(e.log)].ok) => e.outcome = "raised"
                 /\ e.outcome = "raised" =>
                       CommittedRecords(e.log) =
                           e.locals.total_records - batch_len(e.locals.batch_data)

\* C3 witness: the second CALL of a file raised after the first was committed
C3_Witness ==
    \E p \in Procs : \E k \in DOMAIN finished[p] :
        LET log == finished[p][k].log
        IN /\ Len(log) = 3
           /\ log[1].op = "call" /\ log[1].ok
           /\ log[2].op = "commit" /\ log[2].ok
           /\ log[3].op = "call" /\ ~log[3].ok
           /\ CommittedRecords(log) = BATCH_LIMIT

\* the band cap the comment of line 117 and the claim name
MAX_BANDS == 6

\* C4: band cap.  Every record, submitted or in the batch, has a band index
\* in 1..min(n, MAX_BANDS), n the declared band count of its raster.
C4_BandCap ==
    \A p \in Procs :
        /\ \A log \in Logs(p) : \A k \in DOMAIN log : \A r \in DOMAIN log[k].batch.runs :
              run_bands(log[k].batch.runs[r]) \subseteq
                  1..Min(RasterAt(log[k].batch.runs[r].ctx.path).count, MAX_BANDS)
        /\ \A r \in DOMAIN local[p].batch_data.runs :
              run_bands(local[p].batch_data.runs[r]) \subseteq
                  1..Min(RasterAt(local[p].batch_data.runs[r].ctx.path).count, MAX_BANDS)

\* C5: resource discipline.  The raster handle is open inside a file only;
\* a process holds no connection opened for a file that has ended.
C5_ResourceDiscipline ==
    \A p \in Procs :
        /\ src_open[p] => pc[p] \in InFile
        /\ \A i \in DOMAIN open_conns[p] :
              open_conns[p][i].kind = "file" =>
                  /\ pc[p] \in InFile
                  /\ i = Len(open_conns[p])
                  /\ open_conns[p][i].path = path_of(p)

\* pool.map has the result of every chunk
MapDone == taskqueue = <<>> /\ \A p \in Procs : chunk[p] = <<>>

\* C6: worker isolation.  When the run is complete, process_data_type has
\* been called for every data type: each has returned or raised, whatever
\* happened to the others.
C6_WorkerIsolation ==
    MapDone => \A i \in DOMAIN task_state : task_state[i].state \in {"returned", "raised"}

\* C7: zero valid towers.  A file that opens and has a base time, processed
\* with a registry that yields no valid tower, ends as a processed file
\* (return True) with no record and no call of the procedure.
C7_ZeroValidTowers ==
    \A p \in Procs : \A k \in DOMAIN finished[p] :
        LET e == finished[p][k]
        IN (ReachedIndex(e) /\ RasterAt(e.path).geo
              /\ Len(valid_poles_of(e.locals.towers)) = 0) =>
               /\ e.outcome = "done"
               /\ e.log = <<>>
               /\ e.locals.total_records = 0

\* C8: coordinate resolution failure.  A file whose transform gives no pixel
\* index is skipped: no exception, no record, nothing on the cursor; and
\* the next file of the sorted list, if there is one, is started.
C8_IndexFailureSkips ==
    \A p \in Procs : \A k \in DOMAIN finished[p] :
        LET e == finished[p][k]
        IN (ReachedIndex(e) /\ ~RasterAt(e.path).geo
              /\ Len(valid_poles_of(e.locals.towers)) > 0) =>
               /\ e.outcome = "skipped"
               /\ e.log = <<>>
               /\ e.locals.total_records = 0
               /\ batch_len(e.locals.batch_data) = 0
               /\ k < Len(tiff_files[p]) =>
                     \/ Len(finished[p]) > k
                     \/ pc[p] \in InFile /\ file_pos[p] = k + 1
               /\ k = Len(tiff_files[p]) => pc[p] = "returned"

\* C8 witness: the first of two files was skipped for its transform, and the
\* second has ended too
C8_Witness ==
    \E p \in Procs :
        /\ Len(finished[p]) = 2
        /\ finished[p][1].outcome = "skipped"
        /\ ~RasterAt(finished[p][1].path).geo
        /\ Len(valid_poles_of(finished[p][1].locals.towers)) > 0
        /\ finished[p][2].outcome = "done"

\* (band, tower_serial) of r is below that of s
RecordBefore(r, s) ==
    r.band < s.band \/ (r.band = s.band /\ r.tower_serial < s.tower_serial)

Ascending(records) ==
    \A i \in 1..(Len(records) - 1) : RecordBefore(records[i], records[i + 1])

\* C10: ordering.  The file list is the glob result in ascending path order;
\* the files end in that order, one at a time, the file in work being the
\* one behind the last that ended; the records a file has submitted,
\* followed by the ones in its batch, ascend by band and, inside a band, by
\* tower serial.
C10_Ordering ==
    \A p \in Procs :
        /\ \A i \in 1..(Len(tiff_files[p]) - 1) :
              StrLess(tiff_files[p][i], tiff_files[p][i + 1])
        /\ pc[p] \in InFile \cup {"returned"} =>
              /\ Len(tiff_files[p]) = Len(glob_result[data_type[p]])
              /\ {tiff_files[p][i] : i \in DOMAIN tiff_files[p]} =
                     {glob_result[data_type[p]][i] : i \in DOMAIN glob_result[data_type[p]]}
        /\ \A k \in DOMAIN finished[p] : finished[p][k].path = tiff_files[p][k]
        /\ pc[p] \in InFile => file_pos[p] = Len(finished[p]) + 1
        /\ Ascending(Submitted(db_log[p]) \o batch_records(local[p].batch_data))
        /\ \A k \in DOMAIN finished[p] : Ascending(Submitted(finished[p][k].log))

\* C10 witness: glob returned two files in descending order; the first of the
\* sorted list has ended with records of two bands and two towers
C10_Witness ==
    \E p \in Procs :
        /\ Len(finished[p]) = 2
        /\ StrLess(glob_result[data_type[p]][2], glob_result[data_type[p]][1])
        /\ finished[p][1].outcome = "done"
        /\ LET sent == Submitted(finished[p][1].log)
           IN /\ Len(sent) >= 4
              /\ sent[1].band # sent[Len(sent)].band
              /\ sent[1].tower_serial # sent[2].tower_serial

\* what one CALL passes to the procedure, the batch written out
CallArguments(call) ==
    [procedure |-> call.procedure, file_name |-> call.file_name,
     base_time |-> call.base_time, records |-> batch_records(call.batch)]

\* the CALLs of one file, in order
FileBatches(log) == [k \in DOMAIN Calls(log) |-> CallArguments(Calls(log)[k])]

\* the CALLs of one run of load_legacy_data, in order
RECURSIVE RunBatches(_)
RunBatches(ended) ==
    IF ended = <<>> THEN <<>>
    ELSE FileBatches(Head(ended).log) \o RunBatches(Tail(ended))

\* C11: determinism.  When a run of a data type has returned, it has
\* submitted the same sequence of batches (as many batches, the same
\* arguments, the same records in the same order) as every earlier run over
\* the same files and the same towers, in whatever order glob returned the
\* paths and the SELECT the towers.
C11_Determinism ==
    \A p \in Procs :
        pc[p] = "returned" =>
            \A k \in DOMAIN earlier :
                RunBatches(earlier[k].finished) = RunBatches(finished[p])

\* two runs have returned; glob and the SELECT gave another order the second
\* time, and two batches of more than one record were submitted
C11_Witness ==
    \E p \in Procs :
        /\ pc[p] = "returned"
        /\ earlier # <<>>
        /\ earlier[1].found # glob_result[data_type[p]]
        /\ earlier[1].registry # registry
        /\ Len(RunBatches(finished[p])) >= 2
        /\ \A k \in DOMAIN RunBatches(finished[p]) :
              Len(RunBatches(finished[p])[k].records) >= 2

\* a coordinate that is a finite number, and the number
IsFinite(c) == c.kind \in {"num", "text"}
NumberOf(c) == c.v

\* both coordinates of a tower are finite numbers within the bounds
InBounds(tower) ==
    /\ IsFinite(tower[2]) /\ IsFinite(tower[3])
    /\ -90 <= NumberOf(tower[2]) /\ NumberOf(tower[2]) <= 90
    /\ -180 <= NumberOf(tower[3]) /\ NumberOf(tower[3]) <= 180

\* C12: coordinate validation.  get_valid_coordinates returns for every
\* tower sequence; it returns exactly the towers whose two coordinates are
\* finite numbers with -90 <= latitude <= 90 and -180 <= longitude <= 180,
\* each once, in ascending order of the serials, and the i-th coordinate is
\* (longitude, latitude) of the i-th tower returned; of the towers
\* (1, 40, 29), (2, 95, 10), (3, None, 30) it returns tower 1 alone.
C12_CoordinateValidation ==
    (probe.fn = "get_valid_coordinates" /\ probe.result # <<>>) =>
        LET poles == probe.args[1]
            towers == probe.result[1].valid_poles
            coords == probe.result[1].valid_coords
        IN /\ Range(towers) = {t \in Range(poles) : InBounds(t)}
           /\ \A i, j \in DOMAIN towers : i < j => towers[i][1] < towers[j][1]
           /\ DOMAIN coords = DOMAIN towers
           /\ \A i \in DOMAIN towers :
                 coords[i] = <<NumberOf(towers[i][3]), NumberOf(towers[i][2])>>
           /\ poles = << <<1, Num(40), Num(29)>>, <<2, Num(95), Num(10)>>,
                         <<3, NoneCoord, Num(30)>> >>
                 => towers = << <<1, Num(40), Num(29)>> >>

\* get_valid_coordinates has returned for towers out of serial order of which
\* it kept one at a bound and dropped one
C12_Witness ==
    /\ probe.fn = "get_valid_coordinates" /\ probe.result # <<>>
    /\ Len(probe.args[1]) = 2
    /\ probe.args[1][1][1] > probe.args[1][2][1]
    /\ Len(probe.result[1].valid_poles) = 1
    /\ probe.result[1].valid_poles[1][2] = Num(90)

\* C13: value transform (values in tenths of the unit).  The calculator
\* returns as many values as it was given, the i-th for the i-th raw value.
\* For wind_direction the value lies in [0, 360) and differs from raw * 0.1
\* + 180 by a multiple of 360 (raw 1800 gives 0.0), negative raw values
\* included; for every other data type it is raw * 0.1 itself, negative
\* where raw is.
C13_ValueTransform ==
    (probe.fn = "value_calculators" /\ probe.result # <<>>) =>
        LET dt == probe.args[1]
            raw == probe.args[2]
            out == probe.result[1]
        IN /\ DOMAIN out = DOMAIN raw
           /\ \A i \in DOMAIN raw :
                 IF dt = "wind_direction"
                 THEN /\ 0 <= out[i] /\ out[i] < 3600
                      /\ \E turns \in -3..3 : out[i] = raw[i] + 1800 + turns * 3600
                      /\ raw[i] = 1800 => out[i] = 0
                 ELSE out[i] = raw[i]

\* the direction calculator has returned for raw 1800 and a negative raw value
C13_Witness ==
    /\ probe.fn = "value_calculators" /\ probe.result # <<>>
    /\ probe.args = <<"wind_direction", <<1800, -1>> >>
    /\ probe.result[1] = <<0, 1799>>

\* the batches a process holds or has submitted for the file in work
BatchesOf(p) ==
    {local[p].batch_data} \cup {db_log[p][k].batch : k \in DOMAIN db_log[p]}

\* C14: fan-out.  The pool has at most min(number of data types, cpu_count,
\* MAX_DB_CONNECTIONS) worker processes; a data type is in work at no more
\* than one worker at a time, a worker works on one data type and its
\* batches hold records of that data type alone; and when the run is
\* complete every one of the five data types has been handed to a worker's
\* process_data_type once.
C14_FanOut ==
    /\ Cardinality(Procs) <= Min(Min(Len(data_configs), cpu), MAX_DB_CONNECTIONS)
    /\ \A i \in DOMAIN task_state :
          task_state[i].state = "running" =>
              /\ task_state[i].worker \in Procs
              /\ data_type[task_state[i].worker] = data_configs[i]
              /\ \A j \in DOMAIN task_state :
                    (j # i /\ task_state[j].state = "running") =>
                        task_state[j].worker # task_state[i].worker
    /\ \A p \in Procs : \A b \in BatchesOf(p) : \A r \in DOMAIN b.runs :
          b.runs[r].ctx.data_type = data_type[p]
    /\ MapDone =>
          \A i \in DOMAIN task_state : task_state[i].state \in {"returned", "raised"}

\* the keys of a batch element as the ingestion procedure is declared to read it
RecordKeys ==
    {"tower_serial", "file_name", "band", "band_description", "forecast_time", "value"}

\* the arguments of CALL procedure(%s, %s, %s)
CallKeys == {"file_name", "base_time", "batch"}

\* C15: batch record shape.  Every element of every batch passed to the
\* ingestion procedure has exactly the keys tower_serial, file_name, band,
\* band_description, forecast_time and value; band is the 1-based index of
\* the band, band_description and forecast_time are both that band's
\* description; the procedure is called with the file name, the base time
\* and the batch.
C15_RecordShape ==
    \A p \in Procs : \A log \in Logs(p) : \A k \in DOMAIN log :
        log[k].op = "call" =>
            /\ CallKeys \subseteq DOMAIN log[k]
            /\ \A n \in 1..batch_len(log[k].batch) :
                  LET rec == batch_nth(log[k].batch, n)
                      raster == RasterAt(IF log = db_log[p] /\ pc[p] \in InFile
                                         THEN path_of(p)
                                         ELSE (CHOOSE e \in Range(finished[p]) : e.log = log).path)
                  IN /\ DOMAIN rec = RecordKeys
                     /\ rec.band \in 1..raster.count
                     /\ rec.band_description = raster.descriptions[rec.band]
                     /\ rec.forecast_time = raster.descriptions[rec.band]

\* the name of the file at a path "d/<name>.t"
NameAt(path) == SubSeq(path, 3, Len(path) - 2)

\* the parsed description of band 1 of the file at a path
BaseTimeAt(path) == strptime(RasterAt(path).descriptions[1]).value

\* every record of the batch was built for this data type from the file at
\* this path, and carries the file's name
BuiltFor(b, dt, path) ==
    /\ \A r \in DOMAIN b.runs : b.runs[r].ctx.path = path /\ b.runs[r].ctx.data_type = dt
    /\ \A n \in 1..batch_len(b) : batch_nth(b, n).file_name = NameAt(path)

\* every CALL of the log passes the name and the base time of the file at
\* this path, and a batch built from that file
CallsFor(log, dt, path) ==
    \A k \in DOMAIN log :
        log[k].op = "call" =>
            /\ log[k].file_name = NameAt(path)
            /\ log[k].base_time = BaseTimeAt(path)
            /\ BuiltFor(log[k].batch, dt, path)

\* C16: the batch is per file.  A file starts with an empty batch and
\* nothing submitted; the batch in memory and every batch submitted for a
\* file hold records built from that file alone, carrying its name; every
\* CALL for the file passes its name and the parsed description of its
\* band 1; so what a failed file left unsubmitted is in no batch of a file
\* processed after it.
C16_BatchPerFile ==
    \A p \in Procs :
        /\ (pc[p] \in {"connect", "query", "open"}
               \/ (pc[p] = "band" /\ local[p].band_index = 0)) =>
              /\ batch_len(local[p].batch_data) = 0
              /\ db_log[p] = <<>>
        /\ pc[p] \in InFile =>
              /\ BuiltFor(local[p].batch_data, data_type[p], path_of(p))
              /\ CallsFor(db_log[p], data_type[p], path_of(p))
        /\ \A k \in DOMAIN finished[p] :
              /\ CallsFor(finished[p][k].log, finished[p][k].data_type, finished[p][k].path)
              /\ BuiltFor(finished[p][k].locals.batch_data, finished[p][k].data_type,
                          finished[p][k].path)

\* a pool worker whose file of one data type failed at the CALL, leaving its
\* batch unsubmitted, has since submitted the batch of a two-band file of
\* another data type
C16_Witness ==
    \E p \in Procs : \E i \in DOMAIN task_state :
        /\ task_state[i].worker = p
        /\ task_state[i].files = <<"raised">>
        /\ data_type[p] # data_configs[i]
        /\ Len(finished[p]) = 1
        /\ finished[p][1].outcome = "done"
        /\ Len(Calls(finished[p][1].log)) = 1
        /\ batch_len(Calls(finished[p][1].log)[1].batch) = 2

\* batch b followed by batch c, as one list
batch_concat(b, c) ==
    LET m == Len(b.runs)
    IN IF /\ m > 0 /\ c.runs # <<>>
          /\ b.runs[m].kind = "range" /\ c.runs[1].kind = "range"
          /\ b.runs[m].ctx = c.runs[1].ctx
          /\ loop_index(b.runs[m].ctx, b.runs[m].band, b.runs[m].lo) + b.runs[m].n
                = loop_index(c.runs[1].ctx, c.runs[1].band, c.runs[1].lo)
       THEN [len |-> b.len + c.len,
             runs |-> SubSeq(b.runs, 1, m - 1)
                        \o <<[b.runs[m] EXCEPT !.n = @ + c.runs[1].n]>>
                        \o Tail(c.runs)]
       ELSE [len |-> b.len + c.len, runs |-> b.runs \o c.runs]

\* the batches of the CALLs of a log, one after the other, as one list
RECURSIVE SubmittedList(_)
SubmittedList(log) ==
    IF log = <<>> THEN EmptyBatch
    ELSE IF Head(log).op = "call"
         THEN batch_concat(Head(log).batch, SubmittedList(Tail(log)))
         ELSE SubmittedList(Tail(log))

\* the list that holds, band after band from band 1, the record of every
\* valid tower in ascending position, n records in all
FirstRecords(dt, path, towers, n) ==
    IF n = 0 THEN EmptyBatch
    ELSE [len |-> n,
          runs |-> <<[kind |-> "range",
                      ctx |-> [towers |-> towers, path |-> path, data_type |-> dt],
                      band |-> 1, lo |-> 1, n |-> n, rec |-> NoRecord]>>]

\* C17: record conservation.  For a data type with a procedure: while a
\* file is processed, the batches submitted so far followed by the batch in
\* memory are the records of the (band, valid tower) pairs passed so far,
\* each once, in the order of the loops; the last record of a submitted
\* batch and the first of the next are neighbours in that order; and the
\* batches of a file processed to the end hold every pair (valid tower,
\* band b), 1 <= b <= processed band count, once and nothing else, so their
\* lengths sum to valid towers times processed band count.
C17_RecordConservation ==
    \A p \in Procs :
        /\ (pc[p] \in {"band", "tower", "tail"} /\ procedure_get(data_type[p]) # None) =>
              /\ local[p].total_records =
                    local[p].band_index * Len(valid_poles_of(local[p].towers))
                        + local[p].pole_idx
              /\ batch_concat(SubmittedList(db_log[p]), local[p].batch_data)
                    = FirstRecords(data_type[p], path_of(p), local[p].towers,
                                   local[p].total_records)
        /\ \A log \in Logs(p) : \A k \in 1..(Len(Calls(log)) - 1) :
              LET b == Calls(log)[k].batch
                  c == Calls(log)[k + 1].batch
                  last == batch_nth(b, batch_len(b))
                  first == batch_nth(c, 1)
                  width == Len(valid_poles_of(b.runs[1].ctx.towers))
              IN \E pos \in 1..width :
                    /\ last = Canonical(b.runs[1].ctx, last.band, pos)
                    /\ first = IF pos < width
                               THEN Canonical(b.runs[1].ctx, last.band, pos + 1)
                               ELSE Canonical(b.runs[1].ctx, last.band + 1, 1)
        /\ \A k \in DOMAIN finished[p] :
              LET e == finished[p][k]
                  N == Len(valid_poles_of(e.locals.towers)) * e.locals.band_count
              IN (e.outcome = "done" /\ procedure_get(e.data_type) # None) =>
                    /\ SubmittedList(e.log) = FirstRecords(e.data_type, e.path, e.locals.towers, N)
                    /\ batch_len(SubmittedList(e.log)) = N

\* a file of 4167 valid towers and 48 bands was processed to the end in
\* three batches
C17_Witness ==
    \E p \in Procs :
        /\ finished[p] # <<>>
        /\ finished[p][1].outcome = "done"
        /\ Len(Calls(finished[p][1].log)) = 3
        /\ batch_len(SubmittedList(finished[p][1].log)) = BigTowers * BAND_CAP

\* the description is there and reads YYYY-MM-DD_HH, a date that exists
WellFormed(label) ==
    /\ ~label.none
    /\ label.sep = "_"
    /\ label.y >= 1 /\ label.y <= 9999 /\ label.m \in 1..12 /\ label.h \in 0..23
    /\ label.d >= 1 /\ label.d <= days_in_month(label.y, label.m)

\* the raster at the path has no description of band 1 or one that does not parse
Malformed(path) == ~WellFormed(RasterAt(path).descriptions[1])

\* C18: a malformed raster writes nothing.  For a file whose band
\* descriptions are absent or whose first description does not read
\* YYYY-MM-DD_HH, no record is accumulated, no CALL of a procedure and no
\* commit is made, while it is processed or after.
C18_MalformedWritesNothing ==
    \A p \in Procs :
        /\ (pc[p] \in InFile /\ Malformed(path_of(p))) =>
              /\ db_log[p] = <<>>
              /\ batch_len(local[p].batch_data) = 0
              /\ local[p].total_records = 0
        /\ \A k \in DOMAIN finished[p] :
              Malformed(finished[p][k].path) =>
                  /\ finished[p][k].log = <<>>
                  /\ finished[p][k].locals.total_records = 0
                  /\ batch_len(finished[p][k].locals.batch_data) = 0

\* a file whose first description reads "2024-01-01 00" has ended after its
\* towers were fetched, one of them valid, and a registered procedure was
\* there to call
C18_Witness ==
    \E p \in Procs : \E k \in DOMAIN finished[p] :
        /\ Malformed(finished[p][k].path)
        /\ ~RasterAt(finished[p][k].path).descriptions[1].none
        /\ RasterAt(finished[p][k].path).opens
        /\ finished[p][k].locals.towers # 0
        /\ Len(valid_poles_of(finished[p][k].locals.towers)) > 0
        /\ procedure_get(finished[p][k].data_type) # None
        /\ finished[p][k].outcome = "raised"

====
